---- MODULE Spec2Model ----
(***************************************************************************)
(* Model of the results page of the IndiaAI IDP client                     *)
(* (src/src/pages/ResultsPage.tsx): the job-status poller, the raw_data    *)
(* decoding effect, the display aggregates and the export handlers; of     *)
(* the document viewer with its overlay canvas                             *)
(* (src/src/components/DocumentViewer.tsx) and the transcript panel it     *)
(* highlights; and of the review page (ReviewPage, src/unnamed/part_001    *)
(* lines 994-1359): queue, page results, edit buffer and submits; and of   *)
(* the upload page (UploadPage, src/unnamed/part_001 lines 17-368):        *)
(* consent gate, upload request and simulated progress.                    *)
(*                                                                         *)
(* A "session" is one run of the poll effect (lines 25-57): it closes over *)
(* the jobId of the render that started it and over its own pollInterval.  *)
(* React state (results, loading, error, textBlocks, showDownloadMenu)     *)
(* belongs to the component and survives a change of the jobId route       *)
(* parameter; state setters called after unmount have no effect.           *)
(***************************************************************************)
EXTENDS Integers, Sequences, FiniteSets, TLC

VARIABLES
    jobId,            \* useParams().jobId of the current render
    mounted,          \* the component is mounted
    results,          \* useState results: <<>> is null, <<r>> a JobResultsResponse
    loading,          \* useState loading
    error,            \* useState error: NoError is null
    showDownloadMenu, \* useState showDownloadMenu
    textBlocks,       \* useState textBlocks
    exported,         \* the last file handed to the browser by a download handler
    cur,              \* index of the poll-effect run that is current
    sessJob,          \* jobId captured by each run of the poll effect
    pollInterval,     \* whether each run's setInterval timer is registered
    statusInFlight,   \* outstanding api.getJobStatus requests of each run
    resultsInFlight,  \* outstanding api.getJobResults requests of each run
    serverStatus,     \* the backend's status of each job
    terminalSeen,     \* history: a run processed a terminal status or a thrown fetch
    resultsRequested, \* history: getJobResults requests a run has issued (saturating)
    fileType,         \* DocumentViewer prop fileType
    numPages,         \* DocumentViewer useState numPages
    pageNumber,       \* DocumentViewer useState pageNumber
    scale,            \* DocumentViewer useState scale, in tenths (1.0 is 10)
    hoveredBlock,     \* DocumentViewer useState hoveredBlock: <<>> is null, <<i>> an index
    canvas,           \* the overlay canvas: its width/height attributes and style size
    surface,          \* the host's page canvas: <<>> while there is none, <<sf>> once rendered
    drawn,            \* the rectangles on the overlay since its last clearRect
    clicked,          \* history: the argument of the last onBlockClick call, <<>> if none
    pre,              \* the child nodes of the transcript panel (textDisplayRef)
    timers,           \* the pending highlight timers, oldest first, by span id
    spans,            \* history: the number of highlight spans created
    lastClick,        \* history: how the last handleBlockClick call ended
    jobs,             \* ReviewPage useState jobs, as the list of their ids
    selectedJob,      \* ReviewPage useState selectedJob: <<>> is null, <<id>> a job
    ocrResults,       \* ReviewPage useState ocrResults
    currentText,      \* ReviewPage useState currentText, the editable buffer
    rvPageNumber,     \* ReviewPage useState pageNumber
    rvNumPages,       \* ReviewPage useState numPages: <<>> is null
    rvLoading,        \* ReviewPage useState loading
    rvError,          \* ReviewPage useState error: NoError is null
    loadingResults,   \* ReviewPage useState loadingResults
    queueFetch,       \* the fetchNeedsReviewJobs request is outstanding
    resultFetches,    \* outstanding getJobResults requests of the review page, per job
    reviewRequests,   \* outstanding submitJobReview requests with what they closed over
    listeners,        \* the document's mousedown listeners registered by the results page
    file,             \* UploadPage useState file: <<>> is null, <<f>> a File
    consent,          \* UploadPage useState consent
    isUploading,      \* UploadPage useState isUploading
    uploadProgress,   \* UploadPage useState uploadProgress
    upError,          \* UploadPage useState error: NoError is null
    progressIntervals,\* the registered progressInterval timers of the upload page
    uploadRequests,   \* the outstanding api.uploadDocument request: <<>> or <<request>>
    navigateTimer,    \* the setTimeout of line 87 is pending
    upMounted,        \* the upload page is mounted
    uploads           \* history: the number of upload requests sent

pageVars == <<jobId, mounted, results, loading, error, showDownloadMenu, textBlocks, exported>>
pollVars == <<cur, sessJob, pollInterval, statusInFlight, resultsInFlight,
              serverStatus, terminalSeen, resultsRequested>>
viewerVars == <<fileType, numPages, pageNumber, scale, hoveredBlock, canvas, surface,
                drawn, clicked>>
domVars == <<pre, timers, spans, lastClick>>
reviewVars == <<jobs, selectedJob, ocrResults, currentText, rvPageNumber, rvNumPages,
                rvLoading, rvError, loadingResults, queueFetch, resultFetches,
                reviewRequests>>
menuVars == <<listeners>>
uploadVars == <<file, consent, isUploading, uploadProgress, upError, progressIntervals,
                uploadRequests, navigateTimer, upMounted, uploads>>
componentVars == <<viewerVars, domVars, reviewVars, menuVars, uploadVars>>
vars == <<pageVars, pollVars, componentVars>>

----------------------------------------------------------------------------
(* Bounds of the model *)

MaxSessions == 2      \* runs of the poll effect (mount plus route changes)
MaxInFlight == 2      \* outstanding requests of the page (all runs together)
MaxPages == 2         \* pages of a result set
MaxUploads == 2       \* upload requests sent by one visit of the upload page

Sessions == 1..MaxSessions

----------------------------------------------------------------------------
(* Values *)

Jobs == {"jobA", "jobB"}
ReviewJobs == {"jobA", "jobB"}      \* the jobs the backend may flag for review
NoJob == "undefined"

Statuses == {"queued", "processing", "ocr_complete", "completed", "failed"}

NoError == "null"
FailedMsg == "Job processing failed."
TrackingLostMsg == "Failed to track job status. Please refresh."

NoConfidence == <<>>          \* confidence?: undefined
Conf(c) == <<c>>              \* confidence in hundredths (0.90 is 90)

ParagraphBreak == <<"\n", "\n">>

(* raw_data strings the backend can send; "" stands for an absent field *)
RawAbsent == ""
RawMalformed == "{\"blocks\": [{"
RawNoBlocks == "{\"language\":\"en\"}"
RawOneBlock == "{\"blocks\":[{\"text\":\"ab\"}]}"
RawStrings == {RawAbsent, RawMalformed, RawNoBlocks, RawOneBlock}

Block(t) == [text |-> t]

(* JSON.parse on the strings above: a value, or a SyntaxError *)
JSONParse(raw) ==
    CASE raw = RawNoBlocks -> [threw |-> FALSE, hasBlocks |-> FALSE, blocks |-> <<>>]
      [] raw = RawOneBlock -> [threw |-> FALSE, hasBlocks |-> TRUE,
                               blocks |-> <<Block(<<"a", "b">>)>>]
      [] OTHER             -> [threw |-> TRUE, hasBlocks |-> FALSE, blocks |-> <<>>]

Page(n, t, c, raw) == [page_number |-> n, full_text |-> t, confidence |-> c, raw_data |-> raw]


Texts == {<<>>, <<"a", "b">>, <<"c", "d">>}
Confidences == {NoConfidence, Conf(50), Conf(90)}

(* OCRResult records (api.ts OCRResult): the fields the page reads *)
PageUniverse ==
    { Page(n, t, c, raw) : n \in 1..MaxPages, t \in Texts, c \in Confidences,
                           raw \in {RawAbsent, RawOneBlock} }

(* page numbers are unique per job; the array order is the server's *)
DistinctPages(ocr) ==
    \A i, k \in 1..Len(ocr) : i # k => ocr[i].page_number # ocr[k].page_number

(* the ocr_results arrays of at most n pages *)
OcrSetsUpTo(n) ==
    { ocr \in UNION { [1..k -> PageUniverse] : k \in 0..n } : DistinctPages(ocr) }

(* the ocr_results arrays the backend of the polling model answers with *)
PollOcrSets ==
    { <<>>,
      <<Page(1, <<"a", "b">>, Conf(90), RawOneBlock)>>,
      <<Page(1, <<"a", "b">>, NoConfidence, RawMalformed)>>,
      <<Page(1, <<"a", "b">>, Conf(50), RawNoBlocks)>> }

Response(j, ocr) == [job |-> [id |-> j], ocr_results |-> ocr]

(* GET /jobs/{id}/results *)
ServerResults(j) == { Response(j, ocr) : ocr \in PollOcrSets }

----------------------------------------------------------------------------
(* Pure functions of the page *)

(* a poller that stops on completed only *)
IsResultBearingStrict(st) == st = "completed"

(* statusData.status === 'completed' || statusData.status === 'ocr_complete' *)
IsResultBearing(st) == st \in {"completed", "ocr_complete"}

(* a poller that treats a job still in processing as failed *)
IsFailedLoose(st) == st \in {"failed", "processing"}

(* statusData.status === 'failed' *)
IsFailed(st) == st = "failed"

(* The raw_data effect: the textBlocks state after the effect has run for a
   results value, given the textBlocks state before it *)
RawDataEffect(res, blocks) ==
    IF res = <<>> \/ Len(res[1].ocr_results) = 0 THEN blocks
    ELSE LET firstResult == res[1].ocr_results[1]
             rawData == JSONParse(firstResult.raw_data)
         IN  IF firstResult.raw_data = RawAbsent THEN blocks
             ELSE IF rawData.threw THEN blocks            \* catch: console.error only
             ELSE IF rawData.hasBlocks THEN rawData.blocks
             ELSE <<>>                                    \* rawData.blocks || []

RECURSIVE Join(_, _)
(* Array.prototype.join of a list of strings *)
Join(texts, sep) ==
    IF Len(texts) = 0 THEN <<>>
    ELSE IF Len(texts) = 1 THEN texts[1]
    ELSE texts[1] \o sep \o Join(Tail(texts), sep)

(* ocr_results.map(r => r.full_text) *)
MapFullText(ocr) == [i \in 1..Len(ocr) |-> ocr[i].full_text]

(* const fullText = ocr_results.map(r => r.full_text).join('\n\n') *)
fullText(ocr) == Join(MapFullText(ocr), ParagraphBreak)

(* The placeholder of the transcript panel, one token that no page text holds *)
NoTextDetected == <<"No text detected.">>

(* The text child of the transcript panel: {fullText || 'No text detected.'} *)
Transcript(ocr) == IF fullText(ocr) = <<>> THEN NoTextDetected ELSE fullText(ocr)

(* A variant of the export that joins the pages with a single line break *)
exportTextLineBreak(ocr) == Join(MapFullText(ocr), <<"\n">>)

(* downloadAsText: results.ocr_results.map(r => r.full_text).join('\n\n') *)
exportText(ocr) == Join(MapFullText(ocr), ParagraphBreak)

(* r.confidence || 0 *)
ConfidenceOrZero(r) == IF r.confidence = NoConfidence THEN 0 ELSE r.confidence[1]

RECURSIVE ReduceConfidence(_)
(* ocr_results.reduce((acc, r) => acc + (r.confidence || 0), 0), in hundredths *)
ReduceConfidence(ocr) ==
    IF Len(ocr) = 0 THEN 0
    ELSE ConfidenceOrZero(ocr[1]) + ReduceConfidence(Tail(ocr))

(* A rational num/den; den > 0 *)
Rat(n, d) == [num |-> n, den |-> d]
RatEq(p, q) == p.num * q.den = q.num * p.den

(* avgConfidence of the render, in percent: (sum / length) * 100 with the
   confidences as fractions, or 0 for no pages *)
avgConfidence(ocr) ==
    IF Len(ocr) > 0 THEN Rat(ReduceConfidence(ocr), Len(ocr)) ELSE Rat(0, 1)

(* metadata.average_confidence of downloadAsJSON, as a fraction: sum / length *)
average_confidence(ocr) ==
    IF Len(ocr) > 0 THEN Rat(ReduceConfidence(ocr), 100 * Len(ocr)) ELSE Rat(0, 1)

(* What the render shows: the spinner, the error panel, or the results *)
View ==
    IF loading THEN "spinner"
    ELSE IF error # NoError \/ results = <<>> THEN "error"
    ELSE "results"

----------------------------------------------------------------------------
(* State setters: React drops an update of an unmounted component *)

Set(new, old) == IF mounted THEN new ELSE old

RECURSIVE Sum(_, _)
Sum(f, n) == IF n = 0 THEN 0 ELSE f[n] + Sum(f, n - 1)

(* requests of the page that are outstanding *)
Outstanding == Sum(statusInFlight, MaxSessions) + Sum(resultsInFlight, MaxSessions)

(* the run s has been torn down: its cleanup ran (route change or unmount) *)
Cancelled(s) == sessJob[s] # NoJob /\ (s # cur \/ ~mounted)

Saturate(n) == IF n >= 2 THEN 2 ELSE n

----------------------------------------------------------------------------
(* Initial state: the component has mounted with a jobId, the poll effect has
   run once for the job the page was opened on: the immediate check has issued its status request (line 51) and
   the interval is registered (line 52) *)

PageInit ==
    /\ mounted = TRUE
    /\ results = <<>>
    /\ loading = TRUE
    /\ error = NoError
    /\ showDownloadMenu = FALSE
    /\ textBlocks = <<>>
    /\ exported = <<>>

(* A canvas element that nobody has sized: 300 by 150 *)
DefaultCanvas == [width |-> 300, height |-> 150, styleWidth |-> 300, styleHeight |-> 150]

(* The viewer as it mounts, and no transcript panel *)
ViewerInit ==
    /\ numPages = 0
    /\ pageNumber = 1
    /\ scale = 10
    /\ hoveredBlock = <<>>
    /\ canvas = DefaultCanvas
    /\ surface = <<>>
    /\ drawn = <<>>
    /\ clicked = <<>>

ViewerIdle ==
    /\ fileType = "application/pdf"
    /\ ViewerInit
    /\ pre = <<>>
    /\ timers = <<>>
    /\ spans = 0
    /\ lastClick = "none"

(* The review page's useState initial values, lines 995-1003, and no request *)
ReviewIdle ==
    /\ jobs = <<>>
    /\ selectedJob = <<>>
    /\ ocrResults = <<>>
    /\ currentText = <<>>
    /\ rvPageNumber = 1
    /\ rvNumPages = <<>>
    /\ rvLoading = TRUE
    /\ rvError = NoError
    /\ loadingResults = FALSE
    /\ queueFetch = FALSE
    /\ resultFetches = [j \in ReviewJobs |-> 0]
    /\ reviewRequests = {}

(* The results page has mounted: the effect of lines 73-83 has registered
   its mousedown listener *)
MenuIdle == listeners = 1

(* The upload page's useState initial values, lines 20-27, no timer and no
   request *)
UploadIdle ==
    /\ file = <<>>
    /\ consent = FALSE
    /\ isUploading = FALSE
    /\ uploadProgress = 0
    /\ upError = NoError
    /\ progressIntervals = 0
    /\ uploadRequests = <<>>
    /\ navigateTimer = FALSE
    /\ upMounted = TRUE
    /\ uploads = 0

ComponentsIdle == ViewerIdle /\ ReviewIdle /\ MenuIdle /\ UploadIdle

Init ==
    /\ jobId = "jobA"
    /\ PageInit
    /\ ComponentsIdle
    /\ cur = 1
    /\ sessJob = [s \in Sessions |-> IF s = 1 THEN jobId ELSE NoJob]
    /\ pollInterval = [s \in Sessions |-> s = 1]
    /\ statusInFlight = [s \in Sessions |-> IF s = 1 THEN 1 ELSE 0]
    /\ resultsInFlight = [s \in Sessions |-> 0]
    /\ serverStatus \in [Jobs -> Statuses]
    /\ terminalSeen = [s \in Sessions |-> FALSE]
    /\ resultsRequested = [s \in Sessions |-> 0]

----------------------------------------------------------------------------
(* The backend *)

NextStatuses(st) ==
    CASE st = "queued"       -> {"processing", "failed"}
      [] st = "processing"   -> {"ocr_complete", "failed"}
      [] st = "ocr_complete" -> {"completed", "failed"}
      [] OTHER               -> {}

(* the worker moves a job along its lifecycle *)
ServerAdvance(j) ==
    /\ \E st \in NextStatuses(serverStatus[j]) :
          serverStatus' = [serverStatus EXCEPT ![j] = st]
    /\ UNCHANGED <<pageVars, cur, sessJob, pollInterval, statusInFlight,
                   resultsInFlight, terminalSeen, resultsRequested>>
    /\ UNCHANGED componentVars

----------------------------------------------------------------------------
(* The poll effect, lines 25-57 *)

(* An interval tick of run s calls checkStatusAndFetchResults, which issues
   getJobStatus (line 31) without looking at any request still outstanding *)
Tick(s) ==
    /\ pollInterval[s]
    /\ sessJob[s] # NoJob                          \* if (!jobId) return
    /\ Outstanding < MaxInFlight
    /\ statusInFlight' = [statusInFlight EXCEPT ![s] = @ + 1]
    /\ UNCHANGED <<pageVars, cur, sessJob, pollInterval, resultsInFlight,
                   serverStatus, terminalSeen, resultsRequested>>
    /\ UNCHANGED componentVars

(* getJobStatus resolves with queued or processing: neither branch is taken *)
StatusPending(s) ==
    /\ statusInFlight[s] > 0
    /\ ~IsResultBearing(serverStatus[sessJob[s]])
    /\ ~IsFailed(serverStatus[sessJob[s]])
    /\ statusInFlight' = [statusInFlight EXCEPT ![s] = @ - 1]
    /\ UNCHANGED <<pageVars, cur, sessJob, pollInterval, resultsInFlight,
                   serverStatus, terminalSeen, resultsRequested>>
    /\ UNCHANGED componentVars

(* getJobStatus resolves with completed or ocr_complete: getJobResults is
   issued (line 34) and the function suspends again; nothing is cleared yet *)
StatusReady(s) ==
    /\ statusInFlight[s] > 0
    /\ IsResultBearing(serverStatus[sessJob[s]])
    /\ statusInFlight' = [statusInFlight EXCEPT ![s] = @ - 1]
    /\ resultsInFlight' = [resultsInFlight EXCEPT ![s] = @ + 1]
    /\ terminalSeen' = [terminalSeen EXCEPT ![s] = TRUE]
    /\ resultsRequested' = [resultsRequested EXCEPT ![s] = Saturate(@ + 1)]
    /\ UNCHANGED <<pageVars, cur, sessJob, pollInterval, serverStatus>>
    /\ UNCHANGED componentVars

(* getJobStatus resolves with failed, lines 38-41 *)
StatusFailed(s) ==
    /\ statusInFlight[s] > 0
    /\ ~IsResultBearing(serverStatus[sessJob[s]])
    /\ IsFailed(serverStatus[sessJob[s]])
    /\ statusInFlight' = [statusInFlight EXCEPT ![s] = @ - 1]
    /\ error' = Set(FailedMsg, error)
    /\ loading' = Set(FALSE, loading)
    /\ pollInterval' = [pollInterval EXCEPT ![s] = FALSE]
    /\ terminalSeen' = [terminalSeen EXCEPT ![s] = TRUE]
    /\ UNCHANGED <<jobId, mounted, results, showDownloadMenu, textBlocks, exported,
                   cur, sessJob, resultsInFlight, serverStatus, resultsRequested>>
    /\ UNCHANGED componentVars

(* the catch block, lines 43-48 *)
Catch(s) ==
    /\ error' = Set(TrackingLostMsg, error)
    /\ loading' = Set(FALSE, loading)
    /\ pollInterval' = [pollInterval EXCEPT ![s] = FALSE]
    /\ UNCHANGED <<jobId, mounted, results, showDownloadMenu, textBlocks, exported,
                   cur, sessJob, serverStatus, resultsRequested>>
    /\ UNCHANGED componentVars

(* getJobStatus rejects (network or protocol error) *)
StatusThrows(s) ==
    /\ statusInFlight[s] > 0
    /\ statusInFlight' = [statusInFlight EXCEPT ![s] = @ - 1]
    /\ terminalSeen' = [terminalSeen EXCEPT ![s] = TRUE]
    /\ Catch(s)
    /\ UNCHANGED resultsInFlight

(* getJobResults resolves, lines 35-37, followed by the raw_data effect that
   the new results value triggers, lines 59-71 *)
ResultsArrive(s) ==
    /\ resultsInFlight[s] > 0
    /\ \E data \in ServerResults(sessJob[s]) :
          /\ results' = Set(<<data>>, results)
          /\ textBlocks' = Set(RawDataEffect(<<data>>, textBlocks), textBlocks)
    /\ loading' = Set(FALSE, loading)
    /\ pollInterval' = [pollInterval EXCEPT ![s] = FALSE]
    /\ resultsInFlight' = [resultsInFlight EXCEPT ![s] = @ - 1]
    /\ UNCHANGED <<jobId, mounted, error, showDownloadMenu, exported, cur, sessJob,
                   statusInFlight, serverStatus, terminalSeen, resultsRequested>>
    /\ UNCHANGED componentVars

(* getJobResults rejects: the same catch block *)
ResultsThrows(s) ==
    /\ resultsInFlight[s] > 0
    /\ resultsInFlight' = [resultsInFlight EXCEPT ![s] = @ - 1]
    /\ Catch(s)
    /\ UNCHANGED <<statusInFlight, terminalSeen>>

(* The jobId route parameter changes while the page stays mounted: the cleanup
   of the current run clears its interval (lines 54-56), the effect runs again
   for the new jobId (lines 51-52); no state is reset *)
RouteChange(j) ==
    /\ mounted
    /\ j # jobId
    /\ cur < MaxSessions
    /\ Outstanding < MaxInFlight
    /\ jobId' = j
    /\ cur' = cur + 1
    /\ sessJob' = [sessJob EXCEPT ![cur + 1] = j]
    /\ pollInterval' = [pollInterval EXCEPT ![cur] = FALSE, ![cur + 1] = TRUE]
    /\ statusInFlight' = [statusInFlight EXCEPT ![cur + 1] = 1]
    /\ UNCHANGED <<mounted, results, loading, error, showDownloadMenu, textBlocks,
                   exported, resultsInFlight, serverStatus, terminalSeen, resultsRequested>>
    /\ UNCHANGED componentVars

(* document.addEventListener('mousedown', handleClickOutside), line 81 *)
addEventListener(n) == n + 1

(* A variant of the cleanup that removes nothing *)
keepEventListener(n) == n

(* The cleanup of line 82: document.removeEventListener('mousedown',
   handleClickOutside) with the function the same run has added *)
removeEventListener(n) == n - 1

(* The effect of lines 73-83 after a commit that changed showDownloadMenu:
   the cleanup of the previous run, then the new run *)
MenuEffect(n) == addEventListener(removeEventListener(n))

(* The page is unmounted: the cleanups clear the interval (lines 54-56) and
   remove the mousedown listener (line 82) *)
Unmount ==
    /\ mounted
    /\ mounted' = FALSE
    /\ pollInterval' = [pollInterval EXCEPT ![cur] = FALSE]
    /\ listeners' = removeEventListener(listeners)
    /\ UNCHANGED <<jobId, results, loading, error, showDownloadMenu, textBlocks, exported,
                   cur, sessJob, statusInFlight, resultsInFlight, serverStatus,
                   terminalSeen, resultsRequested>>
    /\ UNCHANGED <<viewerVars, domVars, reviewVars, uploadVars>>

----------------------------------------------------------------------------
(* The loaded page: the download menu and the export handlers *)

(* onClick={() => setShowDownloadMenu(!showDownloadMenu)}, line 274 *)
ToggleDownloadMenu ==
    /\ mounted
    /\ View = "results"
    /\ showDownloadMenu' = ~showDownloadMenu
    /\ listeners' = MenuEffect(listeners)
    /\ UNCHANGED <<jobId, mounted, results, loading, error, textBlocks, exported, pollVars>>
    /\ UNCHANGED <<viewerVars, domVars, reviewVars, uploadVars>>

(* handleClickOutside, lines 74-79: a mousedown outside the dropdown container
   closes an open menu *)
handleClickOutside(inside) ==
    /\ mounted
    /\ showDownloadMenu' = IF showDownloadMenu /\ ~inside THEN FALSE ELSE showDownloadMenu
    /\ listeners' = IF showDownloadMenu' # showDownloadMenu THEN MenuEffect(listeners)
                    ELSE listeners
    /\ UNCHANGED <<jobId, mounted, results, loading, error, textBlocks, exported, pollVars>>
    /\ UNCHANGED <<viewerVars, domVars, reviewVars, uploadVars>>

File(kind, text, pages, avg) ==
    [kind |-> kind, text |-> text, total_pages |-> pages, average_confidence |-> avg]

(* downloadAsText, lines 85-99 *)
downloadAsText ==
    /\ mounted
    /\ View = "results"
    /\ showDownloadMenu
    /\ results # <<>>                                     \* if (!results) return
    /\ exported' = <<File("txt", exportText(results[1].ocr_results), 0, Rat(0, 1))>>
    /\ showDownloadMenu' = FALSE
    /\ UNCHANGED <<jobId, mounted, results, loading, error, textBlocks, pollVars>>
    /\ UNCHANGED componentVars

(* downloadAsJSON, lines 101-137 *)
downloadAsJSON ==
    /\ mounted
    /\ View = "results"
    /\ showDownloadMenu
    /\ results # <<>>                                     \* if (!results) return
    /\ exported' = <<File("json", <<>>, Len(results[1].ocr_results),
                          average_confidence(results[1].ocr_results))>>
    /\ showDownloadMenu' = FALSE
    /\ UNCHANGED <<jobId, mounted, results, loading, error, textBlocks, pollVars>>
    /\ UNCHANGED componentVars

----------------------------------------------------------------------------
(* The document viewer (src/src/components/DocumentViewer.tsx).  The host
   (react-pdf) renders one page of the PDF to its own canvas, the "surface";
   the viewer lays its overlay canvas over it.  Page sizes are in CSS pixels
   at a device pixel ratio of 1, so a surface's attributes and its layout
   size agree.  Coordinates are exact rationals (the code computes in
   doubles). *)

FileTypes == {"application/pdf", "image/png"}

(* fileType?.toLowerCase().includes('pdf') *)
isPDF(ft) == ft = "application/pdf"

MinScale == 5         \* Math.max(0.5, ...)
MaxScale == 20        \* Math.min(2.0, ...)
ScaleStep == 1        \* scale - 0.1, scale + 0.1

(* The operator stays within this many zoom steps of the initial scale *)
MaxZoomSteps == 2
ZoomWindow == (10 - MaxZoomSteps)..(10 + MaxZoomSteps)

(* The pages of the displayed PDF and their size at scale 1.0 *)
DocPages == 2
PageSize(p) ==
    IF p % 2 = 1 THEN [width |-> 800, height |-> 600]
    ELSE [width |-> 600, height |-> 800]

(* The surface the host has once it rendered page p at scale sc *)
SurfaceOf(p, sc) ==
    [page |-> p,
     width |-> (PageSize(p).width * sc) \div 10,
     height |-> (PageSize(p).height * sc) \div 10]

Bbox(x, y, w, h) == [x |-> x, y |-> y, width |-> w, height |-> h]
TextBlock(t, b) == [text |-> t, bbox |-> b]

BlockAB == TextBlock(<<"a", "b">>, Bbox(500, 500, 100, 50))
BlockCD == TextBlock(<<"c", "d">>, Bbox(550, 500, 100, 50))
BlockZ == TextBlock(<<"z">>, Bbox(0, 0, 100, 100))

(* The block lists handed to the viewer; BlockAB and BlockCD overlap *)
ViewerBlockLists == { <<BlockAB, BlockCD, BlockZ>>, <<BlockCD, BlockAB>> }

(* Pointer positions, as offsets from the overlay's top left corner
   (e.clientX - rect.left, e.clientY - rect.top) *)
PointerOffsets ==
    { [x |-> 10, y |-> 10], [x |-> 400, y |-> 300], [x |-> 450, y |-> 310],
      [x |-> 510, y |-> 310], [x |-> 590, y |-> 10] }

(* The pointer is over the overlay's layout box *)
OverCanvas(pt, cv) == pt.x <= cv.styleWidth /\ pt.y <= cv.styleHeight

RatLeq(p, q) == p.num * q.den <= q.num * p.den
RatAdd(p, q) ==
    IF p.den = q.den THEN Rat(p.num + q.num, p.den)
    ELSE Rat(p.num * q.den + q.num * p.den, p.den * q.den)
RatMul(n, r) == Rat(n * r.num, r.den)

(* const scaleX = canvas.width / 1000 *)
scaleX(cv) == Rat(cv.width, 1000)

(* A variant that takes the vertical scale from the width *)
scaleYFromWidth(cv) == Rat(cv.width, 1000)

(* const scaleY = canvas.height / 1000 *)
scaleY(cv) == Rat(cv.height, 1000)

(* x, y, width, height of a block on the canvas (lines 65-68, 106-109, 131-134) *)
Rect(bbox, cv) ==
    [x |-> RatMul(bbox.x, scaleX(cv)),
     y |-> RatMul(bbox.y, scaleY(cv)),
     width |-> RatMul(bbox.width, scaleX(cv)),
     height |-> RatMul(bbox.height, scaleY(cv))]

(* The pointer in canvas coordinates:
   (e.clientX - rect.left) * (canvas.width / rect.width), and so for y *)
ToCanvas(pt, cv) ==
    [x |-> Rat(pt.x * cv.width, cv.styleWidth),
     y |-> Rat(pt.y * cv.height, cv.styleHeight)]

(* x >= bx && x <= bx + bw && y >= by && y <= by + bh *)
Contains(r, p) ==
    /\ RatLeq(r.x, p.x) /\ RatLeq(p.x, RatAdd(r.x, r.width))
    /\ RatLeq(r.y, p.y) /\ RatLeq(p.y, RatAdd(r.y, r.height))

Hits(blocks, p, cv) == { i \in 1..Len(blocks) : Contains(Rect(blocks[i].bbox, cv), p) }

(* A variant that resolves to the last block containing the point *)
findLastIndex(blocks, p, cv) ==
    LET hits == Hits(blocks, p, cv)
    IN  IF hits = {} THEN -1 ELSE (CHOOSE i \in hits : \A k \in hits : k <= i) - 1

(* textBlocks.findIndex(...) and textBlocks.find(...): the 0-based index of
   the first block containing the point, -1 if there is none *)
findIndex(blocks, p, cv) ==
    LET hits == Hits(blocks, p, cv)
    IN  IF hits = {} THEN -1 ELSE (CHOOSE i \in hits : \A k \in hits : i <= k) - 1

(* The draw effect, lines 36-91: the overlay and its rectangles after the
   effect has run.  It returns early when there are no blocks or when the
   host has no '.react-pdf__Page__canvas' element; otherwise it sizes the
   overlay to the surface, clears it and strokes one rectangle per block. *)
DrawEffect(blocks, hov, cv, sf, ft, dr) ==
    IF Len(blocks) = 0 \/ ~isPDF(ft) \/ sf = <<>> THEN [canvas |-> cv, drawn |-> dr]
    ELSE LET sized == [width |-> sf[1].width, height |-> sf[1].height,
                       styleWidth |-> sf[1].width, styleHeight |-> sf[1].height]
         IN  [canvas |-> sized,
              drawn |-> [i \in 1..Len(blocks) |->
                            [rect |-> Rect(blocks[i].bbox, sized),
                             isHovered |-> hov = <<i - 1>>]]]

----------------------------------------------------------------------------
(* The transcript panel of the results page and handleBlockClick
   (ResultsPage.tsx lines 139-171).  The panel is a <pre> whose children
   are text nodes and highlight spans; a span holds one text node. *)

TextNode(d) == [tag |-> "text", id |-> 0, data |-> d]
SpanNode(id, d) == [tag |-> "span", id |-> id, data |-> d]

RECURSIVE textContent(_)
(* Node.textContent of the panel: the data of its text nodes in tree order *)
textContent(nodes) ==
    IF Len(nodes) = 0 THEN <<>> ELSE nodes[1].data \o textContent(Tail(nodes))

(* String.prototype.indexOf: the 0-based position of the first occurrence
   of needle in hay, -1 if there is none *)
indexOf(hay, needle) ==
    LET at == { i \in 0..(Len(hay) - Len(needle)) :
                    SubSeq(hay, i + 1, i + Len(needle)) = needle }
    IN  IF at = {} THEN -1 ELSE CHOOSE i \in at : \A k \in at : i <= k

(* A variant of the timer callback that removes the span with its text *)
UnwrapDropsText(node) == <<>>

(* The timer callback, lines 159-166: the span's child is moved in front of
   the span and the span is removed; the neighbours are not merged *)
Unwrap(node) == <<TextNode(node.data)>>

(* range.surroundContents(span) for a range inside one text node: the node
   is split at both ends of the range and the middle is wrapped *)
SurroundContents(node, from, to, id) ==
    <<TextNode(SubSeq(node.data, 1, from)),
      SpanNode(id, SubSeq(node.data, from + 1, to)),
      TextNode(SubSeq(node.data, to + 1, Len(node.data)))>>

(* handleBlockClick(block): what it does to the panel.  range.setStart and
   range.setEnd throw IndexSizeError when the offset exceeds the length of
   textElement.firstChild; the exception leaves the handler. *)
handleBlockClick(block) ==
    LET content == textContent(pre)
        index == indexOf(content, block.text)
        textNode == pre[1]                                   \* textElement.firstChild
        from == IF index > 0 THEN index ELSE 0               \* Math.max(0, index)
        to == IF index + Len(block.text) < Len(content)      \* Math.min(length, ...)
                THEN index + Len(block.text) ELSE Len(content)
    IN  IF index = -1
        THEN /\ lastClick' = "notFound"
             /\ UNCHANGED <<pre, timers, spans>>
        ELSE IF from > Len(textNode.data) \/ to > Len(textNode.data)
        THEN /\ lastClick' = "IndexSizeError"
             /\ UNCHANGED <<pre, timers, spans>>
        ELSE /\ pre' = SurroundContents(textNode, from, to, spans + 1) \o Tail(pre)
             /\ timers' = Append(timers, spans + 1)           \* setTimeout(..., 2000)
             /\ spans' = spans + 1
             /\ lastClick' = "highlighted"

RECURSIVE ReplaceSpan(_, _)
ReplaceSpan(nodes, id) ==
    IF Len(nodes) = 0 THEN <<>>
    ELSE IF nodes[1].tag = "span" /\ nodes[1].id = id
         THEN Unwrap(nodes[1]) \o Tail(nodes)
         ELSE <<nodes[1]>> \o ReplaceSpan(Tail(nodes), id)

(* The oldest highlight timer fires, 2000 ms after its click *)
TimerFires ==
    /\ timers # <<>>
    /\ pre' = ReplaceSpan(pre, Head(timers))
    /\ timers' = Tail(timers)
    /\ UNCHANGED <<spans, lastClick, pageVars, pollVars, viewerVars, reviewVars,
                   menuVars, uploadVars>>

----------------------------------------------------------------------------
(* The document viewer: the host and the handlers *)

(* The host's surface shows the page and zoom of the current render *)
HostReady == isPDF(fileType) /\ surface = <<SurfaceOf(pageNumber, scale)>>

(* onDocumentLoadSuccess, lines 31-33: the PDF has been loaded *)
onDocumentLoadSuccess ==
    /\ isPDF(fileType)
    /\ numPages = 0
    /\ numPages' = DocPages
    /\ UNCHANGED <<fileType, pageNumber, scale, hoveredBlock, canvas, surface, drawn,
                   clicked, domVars, pageVars, pollVars, reviewVars,
                   menuVars, uploadVars>>

(* The host finishes rendering the page and zoom of the current render to
   its canvas; the viewer is not told *)
HostRender ==
    /\ isPDF(fileType)
    /\ numPages > 0
    /\ ~HostReady
    /\ surface' = <<SurfaceOf(pageNumber, scale)>>
    /\ UNCHANGED <<fileType, numPages, pageNumber, scale, hoveredBlock, canvas, drawn,
                   clicked, domVars, pageVars, pollVars, reviewVars,
                   menuVars, uploadVars>>

(* Previous, lines 149-155: setPageNumber(Math.max(1, pageNumber - 1)); the
   draw effect does not depend on pageNumber *)
PreviousPage ==
    /\ pageNumber > 1                                     \* disabled={pageNumber <= 1}
    /\ pageNumber' = IF pageNumber - 1 > 1 THEN pageNumber - 1 ELSE 1
    /\ UNCHANGED <<fileType, numPages, scale, hoveredBlock, canvas, surface, drawn,
                   clicked, domVars, pageVars, pollVars, reviewVars,
                   menuVars, uploadVars>>

(* Next, lines 159-165: setPageNumber(Math.min(numPages, pageNumber + 1)) *)
NextPage ==
    /\ pageNumber < numPages                              \* disabled={pageNumber >= numPages}
    /\ pageNumber' = IF pageNumber + 1 < numPages THEN pageNumber + 1 ELSE numPages
    /\ UNCHANGED <<fileType, numPages, scale, hoveredBlock, canvas, surface, drawn,
                   clicked, domVars, pageVars, pollVars, reviewVars,
                   menuVars, uploadVars>>

(* A zoom button, lines 169-181: the new scale is committed and the draw
   effect runs (scale is one of its dependencies).  The host resizes its
   canvas for the new scale either within the same commit, before the
   effect (hostFirst), or later (HostRender). *)
SetScale(newScale, hostFirst) ==
    /\ newScale # scale
    /\ newScale \in ZoomWindow
    /\ hostFirst => HostReady
    /\ scale' = newScale
    /\ surface' = IF hostFirst THEN <<SurfaceOf(pageNumber, newScale)>> ELSE surface
    /\ LET after == DrawEffect(textBlocks, hoveredBlock, canvas, surface', fileType, drawn)
       IN  canvas' = after.canvas /\ drawn' = after.drawn
    /\ UNCHANGED <<fileType, numPages, pageNumber, hoveredBlock, clicked, domVars,
                   pageVars, pollVars, reviewVars,
                   menuVars, uploadVars>>

(* setScale(Math.max(0.5, scale - 0.1)) *)
ZoomOut(hostFirst) ==
    SetScale(IF scale - ScaleStep > MinScale THEN scale - ScaleStep ELSE MinScale, hostFirst)

(* setScale(Math.min(2.0, scale + 0.1)) *)
ZoomIn(hostFirst) ==
    SetScale(IF scale + ScaleStep < MaxScale THEN scale + ScaleStep ELSE MaxScale, hostFirst)

(* setHoveredBlock(h): the draw effect runs when the value changed *)
SetHoveredBlock(h) ==
    /\ hoveredBlock' = h
    /\ LET after == DrawEffect(textBlocks, h, canvas, surface, fileType, drawn)
       IN  IF h # hoveredBlock
           THEN canvas' = after.canvas /\ drawn' = after.drawn
           ELSE UNCHANGED <<canvas, drawn>>
    /\ UNCHANGED <<fileType, numPages, pageNumber, scale, surface, clicked, domVars,
                   pageVars, pollVars, reviewVars,
                   menuVars, uploadVars>>

(* handleCanvasHover, lines 119-140 *)
handleCanvasHover(pt) ==
    LET hoveredIndex == findIndex(textBlocks, ToCanvas(pt, canvas), canvas)
    IN  /\ OverCanvas(pt, canvas)
        /\ SetHoveredBlock(IF hoveredIndex >= 0 THEN <<hoveredIndex>> ELSE <<>>)

(* onMouseLeave={() => setHoveredBlock(null)}, line 217 *)
onMouseLeave == SetHoveredBlock(<<>>)

(* handleCanvasClick, lines 93-117: the first block containing the point is
   handed to onBlockClick, which is the page's handleBlockClick *)
handleCanvasClick(pt) ==
    LET clickedIndex == findIndex(textBlocks, ToCanvas(pt, canvas), canvas)
    IN  /\ OverCanvas(pt, canvas)
        /\ IF clickedIndex >= 0
           THEN /\ clicked' = <<textBlocks[clickedIndex + 1]>>
                /\ handleBlockClick(textBlocks[clickedIndex + 1])
           ELSE UNCHANGED <<clicked, domVars>>
        /\ UNCHANGED <<fileType, numPages, pageNumber, scale, hoveredBlock, canvas,
                       surface, drawn, pageVars, pollVars, reviewVars,
                   menuVars, uploadVars>>

----------------------------------------------------------------------------
(* The review page (ReviewPage of src/unnamed/part_001, lines 994-1359).
   A job is represented by its id.  A handler's state updates are committed
   together and the effects of lines 1009-1028 run after the commit; an
   action holds the handler, the commit and the effects it triggers. *)

LoadFailedMsg == "Failed to load jobs needing review"
SubmitFailedMsg == "Failed to submit review"
ReviewActions == {"approve", "reject"}

(* GET /jobs/needs-review: lists of flagged jobs, without duplicate ids *)
ReviewQueues ==
    { <<>>, <<"jobA">>, <<"jobB", "jobA">>, <<"jobA", "jobB">> }

(* GET /jobs/{id}/results for the flagged jobs: two pages for jobA, none
   for jobB *)
ReviewResults(j) ==
    CASE j = "jobA" -> <<Page(1, <<"a", "b">>, Conf(50), RawAbsent),
                         Page(2, <<"c", "d">>, Conf(50), RawAbsent)>>
      [] OTHER      -> <<>>

(* What the operator may type into the textarea *)
EditTexts == {<<"x">>}

(* The pages of every job's PDF *)
ReviewDocPages == 2

(* The body and the closure of a PATCH sent by handleReview; copy tells
   outstanding requests with equal contents apart *)
ReviewRequest(copy, job, action, text, page, queue) ==
    [copy |-> copy, job |-> job, action |-> action, full_text |-> text, page |-> page,
     jobs |-> queue]

SameRequest(r1, r2) ==
    /\ r1.job = r2.job /\ r1.action = r2.action /\ r1.full_text = r2.full_text
    /\ r1.page = r2.page /\ r1.jobs = r2.jobs

(* A variant that selects the last job of a list *)
LastOf(list) == <<list[Len(list)]>>

(* data[0], updatedJobs[0] *)
FirstOf(list) == <<list[1]>>

(* ocrResults.find(r => r.page_number === pageNumber), then its full_text
   or '' *)
PageText(ocr, n) ==
    IF \E i \in 1..Len(ocr) : ocr[i].page_number = n
    THEN ocr[CHOOSE i \in 1..Len(ocr) :
                /\ ocr[i].page_number = n
                /\ \A k \in 1..(i - 1) : ocr[k].page_number # n].full_text
    ELSE <<>>

(* A variant of the filter that keeps the reviewed job and drops the rest *)
WithoutOtherJobs(list, id) == SelectSeq(list, LAMBDA j : j = id)

(* jobs.filter(j => j.id !== selectedJob.id) *)
WithoutJob(list, id) == SelectSeq(list, LAMBDA j : j # id)

(* A variant of the outcome test that takes every settled request for a
   success *)
FulfilledAlways(outcome) == TRUE

(* await submitJobReview(...) returns, or throws into the catch block *)
Fulfilled(outcome) == outcome = "fulfilled"

(* What the render shows: the spinner, 'All Caught Up!', or the review panes *)
ReviewView ==
    IF rvLoading THEN "spinner"
    ELSE IF Len(jobs) = 0 THEN "caughtUp"
    ELSE "review"

(* The effects after a commit that took selectedJob from sel0 to sel1 and
   pageNumber from page0 to page1 and left ocrResults = ocr1 (a new array
   if ocrChanged) and currentText = text1.
   First render: the selectedJob effect (lines 1009-1017) runs if the
   selection changed, then the buffer effect (lines 1019-1028) runs if
   pageNumber or ocrResults changed; their updates are batched.  Second
   render: the buffer effect runs again if the first round changed
   pageNumber or ocrResults. *)
AfterCommit(sel0, sel1, page0, page1, ocrChanged, ocr1, text1) ==
    LET selChanged == sel1 # sel0
        cleared == selChanged /\ sel1 = <<>>              \* setOcrResults([]); setCurrentText('')
        loads == selChanged /\ sel1 # <<>>                \* loadJobResults(id); setPageNumber(1)
        seeds1 == (page1 # page0 \/ ocrChanged) /\ Len(ocr1) > 0
        text2 == IF seeds1 THEN PageText(ocr1, page1)
                 ELSE IF cleared THEN <<>> ELSE text1
        page2 == IF loads THEN 1 ELSE page1
        ocr2 == IF cleared THEN <<>> ELSE ocr1
        seeds2 == (page2 # page1 \/ cleared) /\ Len(ocr2) > 0
    IN  [page |-> page2,
         ocr |-> ocr2,
         text |-> IF seeds2 THEN PageText(ocr2, page2) ELSE text2,
         fetch |-> IF loads THEN sel1 ELSE <<>>]

(* The variables a commit and its effects decide *)
Commit(sel1, page1, ocrChanged, ocr1, text1, loadingResults1) ==
    LET after == AfterCommit(selectedJob, sel1, rvPageNumber, page1, ocrChanged, ocr1, text1)
    IN  /\ selectedJob' = sel1
        /\ rvPageNumber' = after.page
        /\ ocrResults' = after.ocr
        /\ currentText' = after.text
        /\ resultFetches' = IF after.fetch = <<>> THEN resultFetches
                            ELSE [resultFetches EXCEPT ![after.fetch[1]] = @ + 1]
        /\ loadingResults' = IF after.fetch = <<>> THEN loadingResults1 ELSE TRUE

FrameOfReview == UNCHANGED <<pageVars, pollVars, viewerVars, domVars, menuVars, uploadVars>>

(* A response whose commit would start a second getJobResults request for
   a job is held back until the first one of that job has settled *)
FetchSlotFree(sel1) ==
    sel1 # <<>> /\ sel1 # selectedJob => resultFetches[sel1[1]] = 0

(* loadJobs, lines 1030-1044: fetchNeedsReviewJobs resolves with data *)
LoadJobsResolves(data) ==
    /\ queueFetch
    /\ queueFetch' = FALSE
    /\ jobs' = data
    /\ rvLoading' = FALSE                                   \* finally
    /\ Commit(IF Len(data) > 0 THEN FirstOf(data) ELSE selectedJob,
              rvPageNumber, FALSE, ocrResults, currentText, loadingResults)
    /\ UNCHANGED <<rvNumPages, rvError, reviewRequests>>
    /\ FrameOfReview

(* loadJobs: fetchNeedsReviewJobs rejects *)
LoadJobsThrows ==
    /\ queueFetch
    /\ queueFetch' = FALSE
    /\ rvError' = LoadFailedMsg
    /\ rvLoading' = FALSE
    /\ UNCHANGED <<jobs, selectedJob, ocrResults, currentText, rvPageNumber, rvNumPages,
                   loadingResults, resultFetches, reviewRequests>>
    /\ FrameOfReview

(* loadJobResults, lines 1046-1056: getJobResults(jobId) resolves; the
   handler does not look at the job that is selected by now *)
JobResultsResolve(j) ==
    /\ resultFetches[j] > 0
    /\ LET after == AfterCommit(selectedJob, selectedJob, rvPageNumber, rvPageNumber,
                                TRUE, ReviewResults(j), currentText)
       IN  /\ ocrResults' = after.ocr
           /\ currentText' = after.text
    /\ resultFetches' = [resultFetches EXCEPT ![j] = @ - 1]
    /\ loadingResults' = FALSE                              \* finally
    /\ UNCHANGED <<jobs, selectedJob, rvPageNumber, rvNumPages, rvLoading, rvError,
                   queueFetch, reviewRequests>>
    /\ FrameOfReview

(* loadJobResults: getJobResults rejects; console.error only *)
JobResultsThrow(j) ==
    /\ resultFetches[j] > 0
    /\ resultFetches' = [resultFetches EXCEPT ![j] = @ - 1]
    /\ loadingResults' = FALSE
    /\ UNCHANGED <<jobs, selectedJob, ocrResults, currentText, rvPageNumber, rvNumPages,
                   rvLoading, rvError, queueFetch, reviewRequests>>
    /\ FrameOfReview

(* onDocumentLoadSuccess, lines 1078-1080 *)
ReviewDocumentLoadSuccess ==
    /\ ReviewView = "review"
    /\ selectedJob # <<>>
    /\ rvNumPages # <<ReviewDocPages>>
    /\ rvNumPages' = <<ReviewDocPages>>
    /\ UNCHANGED <<jobs, selectedJob, ocrResults, currentText, rvPageNumber, rvLoading,
                   rvError, loadingResults, queueFetch, resultFetches, reviewRequests>>
    /\ FrameOfReview

(* A page button, lines 1154-1155 and 1175-1176: setPageNumber(p => p + d) *)
TurnPage(d) ==
    /\ ReviewView = "review"
    /\ Commit(selectedJob, rvPageNumber + d, FALSE, ocrResults, currentText, loadingResults)
    /\ UNCHANGED <<jobs, rvNumPages, rvLoading, rvError, queueFetch, reviewRequests>>
    /\ FrameOfReview

ReviewPreviousPage ==
    /\ rvPageNumber > 1                                     \* disabled={pageNumber <= 1}
    /\ TurnPage(-1)

ReviewNextPage ==
    /\ rvNumPages # <<>> /\ rvPageNumber < rvNumPages[1]    \* disabled={numPages === null || ...}
    /\ TurnPage(1)

(* The textarea, lines 1276-1286: onChange={(e) => setCurrentText(e.target.value)} *)
EditText(t) ==
    /\ ReviewView = "review"
    /\ selectedJob # <<>>
    /\ ~loadingResults
    /\ t # currentText
    /\ currentText' = t
    /\ UNCHANGED <<jobs, selectedJob, ocrResults, rvPageNumber, rvNumPages, rvLoading,
                   rvError, loadingResults, queueFetch, resultFetches, reviewRequests>>
    /\ FrameOfReview

(* onDismiss={() => setError(null)}, line 1138 *)
DismissError ==
    /\ ReviewView = "review"
    /\ rvError # NoError
    /\ rvError' = NoError
    /\ UNCHANGED <<jobs, selectedJob, ocrResults, currentText, rvPageNumber, rvNumPages,
                   rvLoading, loadingResults, queueFetch, resultFetches, reviewRequests>>
    /\ FrameOfReview

(* handleReview, lines 1058-1067, up to its await: the PATCH is sent with
   the buffer and the page cursor; the continuation keeps the jobs and the
   selectedJob of the render whose button was pressed *)
handleReview(action) ==
    /\ ReviewView = "review"
    /\ selectedJob # <<>>                                   \* if (!selectedJob) return
    /\ Cardinality(reviewRequests) < MaxInFlight
    /\ LET req == ReviewRequest(1, selectedJob[1], action, currentText, rvPageNumber, jobs)
           copies == Cardinality({r \in reviewRequests : SameRequest(r, req)})
       IN  reviewRequests' = reviewRequests \cup {[req EXCEPT !.copy = copies + 1]}
    /\ UNCHANGED <<jobs, selectedJob, ocrResults, currentText, rvPageNumber, rvNumPages,
                   rvLoading, rvError, loadingResults, queueFetch, resultFetches>>
    /\ FrameOfReview

(* handleReview, lines 1068-1076: the PATCH of request r settles *)
ReviewSettles(r, outcome) ==
    /\ r \in reviewRequests
    /\ \A r2 \in reviewRequests : SameRequest(r, r2) => r2.copy <= r.copy
    /\ Fulfilled(outcome) =>
          LET updatedJobs == WithoutJob(r.jobs, r.job)
          IN  FetchSlotFree(IF Len(updatedJobs) > 0 THEN FirstOf(updatedJobs) ELSE <<>>)
    /\ reviewRequests' = reviewRequests \ {r}
    /\ IF Fulfilled(outcome)
       THEN LET updatedJobs == WithoutJob(r.jobs, r.job)
            IN  /\ jobs' = updatedJobs
                /\ Commit(IF Len(updatedJobs) > 0 THEN FirstOf(updatedJobs) ELSE <<>>,
                          1, FALSE, ocrResults, currentText, loadingResults)
                /\ UNCHANGED rvError
       ELSE /\ rvError' = SubmitFailedMsg
            /\ UNCHANGED <<jobs, selectedJob, ocrResults, currentText, rvPageNumber,
                           loadingResults, resultFetches>>
    /\ UNCHANGED <<rvNumPages, rvLoading, queueFetch>>
    /\ FrameOfReview

----------------------------------------------------------------------------
(* The upload page (UploadPage of src/unnamed/part_001, lines 17-368) *)

ConsentRequiredMsg == "User consent is required for data processing under DPDP Act."
UploadFailedMsg == "Upload failed. Please try again."

(* errorMessage of the catch block, lines 94-107: the default text or the
   detail of the backend's response *)
UploadErrors == {UploadFailedMsg, "File type not allowed"}

(* The files the operator may drop *)
Files == {"scan.pdf"}

StartProgress == 10      \* setUploadProgress(10)
ProgressStep == 10       \* prev + 10
ProgressCap == 90        \* Math.min(..., 90)
DoneProgress == 100      \* setUploadProgress(100)

Min(a, b) == IF a <= b THEN a ELSE b

(* A variant of the consent test that lets every upload through *)
ConsentWaived(c) == TRUE

(* if (!consent) { setError(...); return; }, lines 64-67 *)
ConsentGiven(c) == c

FrameOfUpload == UNCHANGED <<pageVars, pollVars, viewerVars, domVars, reviewVars, menuVars>>

(* onDrop, lines 29-34; the dropzone is rendered while no file is selected *)
onDrop(f) ==
    /\ upMounted
    /\ file = <<>>
    /\ file' = <<f>>
    /\ upError' = NoError
    /\ UNCHANGED <<consent, isUploading, uploadProgress, progressIntervals, uploadRequests,
                   navigateTimer, upMounted, uploads>>
    /\ FrameOfUpload

(* removeFile, lines 48-51; the Remove button has disabled={isUploading} *)
removeFile ==
    /\ upMounted
    /\ file # <<>>
    /\ ~isUploading
    /\ file' = <<>>
    /\ upError' = NoError
    /\ UNCHANGED <<consent, isUploading, uploadProgress, progressIntervals, uploadRequests,
                   navigateTimer, upMounted, uploads>>
    /\ FrameOfUpload

(* The consent checkbox, line 197: onChange={(e) => setConsent(e.target.checked)} *)
setConsent(c) ==
    /\ upMounted
    /\ c # consent
    /\ consent' = c
    /\ UNCHANGED <<file, isUploading, uploadProgress, upError, progressIntervals,
                   uploadRequests, navigateTimer, upMounted, uploads>>
    /\ FrameOfUpload

(* handleUpload, lines 61-80, up to its await *)
handleUpload ==
    /\ IF file = <<>>
       THEN UNCHANGED <<isUploading, uploadProgress, upError, progressIntervals,
                        uploadRequests, uploads>>
       ELSE IF ~ConsentGiven(consent)
       THEN /\ upError' = ConsentRequiredMsg
            /\ UNCHANGED <<isUploading, uploadProgress, progressIntervals, uploadRequests,
                           uploads>>
       ELSE /\ uploads < MaxUploads
            /\ isUploading' = TRUE
            /\ uploadProgress' = StartProgress
            /\ upError' = NoError
            /\ progressIntervals' = progressIntervals + 1       \* setInterval, line 75
            /\ uploadRequests' = <<[file |-> file[1], consent |-> consent]>>
            /\ uploads' = uploads + 1
    /\ UNCHANGED <<file, consent, navigateTimer, upMounted>>
    /\ FrameOfUpload

(* The Process Document button, lines 347-352: rendered with the selected
   file, disabled={isUploading} *)
ProcessDocument ==
    /\ upMounted
    /\ file # <<>>
    /\ ~isUploading
    /\ handleUpload

(* A progressInterval timer fires, lines 75-77 *)
ProgressTick ==
    /\ upMounted
    /\ progressIntervals > 0
    /\ uploadProgress' = Min(uploadProgress + ProgressStep, ProgressCap)
    /\ UNCHANGED <<file, consent, isUploading, upError, progressIntervals, uploadRequests,
                   navigateTimer, upMounted, uploads>>
    /\ FrameOfUpload

(* handleUpload, lines 80-89: api.uploadDocument resolves; the interval of
   this call is cleared and the navigation timer is set *)
UploadResolves ==
    /\ uploadRequests # <<>>
    /\ uploadRequests' = <<>>
    /\ progressIntervals' = progressIntervals - 1
    /\ uploadProgress' = DoneProgress
    /\ navigateTimer' = TRUE
    /\ UNCHANGED <<file, consent, isUploading, upError, upMounted, uploads>>
    /\ FrameOfUpload

(* handleUpload, lines 91-112: api.uploadDocument rejects; progressInterval
   is a const of the try block and is not cleared by the catch block *)
UploadRejects(msg) ==
    /\ uploadRequests # <<>>
    /\ uploadRequests' = <<>>
    /\ upError' = msg
    /\ isUploading' = FALSE
    /\ uploadProgress' = 0
    /\ UNCHANGED <<file, consent, progressIntervals, navigateTimer, upMounted, uploads>>
    /\ FrameOfUpload

(* The timer of lines 87-89 fires: navigate('/results/...') unmounts the page *)
Navigate ==
    /\ navigateTimer
    /\ navigateTimer' = FALSE
    /\ upMounted' = FALSE
    /\ UNCHANGED <<file, consent, isUploading, uploadProgress, upError, progressIntervals,
                   uploadRequests, uploads>>
    /\ FrameOfUpload

----------------------------------------------------------------------------
(* Specifications *)

Next ==
    \/ \E j \in Jobs : ServerAdvance(j)
    \/ \E s \in Sessions : Tick(s)
    \/ \E s \in Sessions : StatusPending(s)
    \/ \E s \in Sessions : StatusReady(s)
    \/ \E s \in Sessions : StatusFailed(s)
    \/ \E s \in Sessions : StatusThrows(s)
    \/ \E s \in Sessions : ResultsArrive(s)
    \/ \E s \in Sessions : ResultsThrows(s)
    \/ \E j \in Jobs : RouteChange(j)
    \/ Unmount

Spec == Init /\ [][Next]_vars


(* The poller of one mounted page under the hypotheses of the tracking claim:
   every fetch resolves, the interval timer keeps firing while registered, and
   the backend moves every job to a status the poller acts on *)
Reportable(st) == st \in {"completed", "ocr_complete", "failed"}

NextLive ==
    \/ \E j \in Jobs : ServerAdvance(j)
    \/ \E s \in Sessions : Tick(s)
    \/ \E s \in Sessions : StatusPending(s)
    \/ \E s \in Sessions : StatusReady(s)
    \/ \E s \in Sessions : StatusFailed(s)
    \/ \E s \in Sessions : StatusThrows(s)
    \/ \E s \in Sessions : ResultsArrive(s)
    \/ \E s \in Sessions : ResultsThrows(s)

Fairness ==
    /\ \A j \in Jobs : WF_vars(ServerAdvance(j) /\ ~Reportable(serverStatus[j]))
    /\ \A s \in Sessions : WF_vars(Tick(s))
    /\ \A s \in Sessions :
          WF_vars(StatusPending(s) \/ StatusReady(s) \/ StatusFailed(s) \/ StatusThrows(s))
    /\ \A s \in Sessions : WF_vars(ResultsArrive(s) \/ ResultsThrows(s))

LiveSpec == Init /\ [][NextLive]_vars /\ Fairness

(* The page once a result set is on display: the poller is quiescent and the
   operator uses the download menu *)
Quiesced ==
    /\ jobId = "jobA"
    /\ mounted = TRUE
    /\ loading = FALSE
    /\ error = NoError
    /\ showDownloadMenu = FALSE
    /\ exported = <<>>
    /\ cur = 1
    /\ sessJob = [s \in Sessions |-> IF s = 1 THEN "jobA" ELSE NoJob]
    /\ pollInterval = [s \in Sessions |-> FALSE]
    /\ statusInFlight = [s \in Sessions |-> 0]
    /\ resultsInFlight = [s \in Sessions |-> 0]
    /\ serverStatus = [j \in Jobs |-> "completed"]
    /\ terminalSeen = [s \in Sessions |-> s = 1]
    /\ resultsRequested = [s \in Sessions |-> IF s = 1 THEN 1 ELSE 0]

AggInit ==
    /\ results \in { <<Response("jobA", ocr)>> : ocr \in OcrSetsUpTo(MaxPages) }
    /\ textBlocks = RawDataEffect(results, <<>>)
    /\ Quiesced
    /\ ComponentsIdle

AggNext ==
    \/ ToggleDownloadMenu
    \/ \E inside \in BOOLEAN : handleClickOutside(inside)
    \/ downloadAsText
    \/ downloadAsJSON

AggSpec == AggInit /\ [][AggNext]_vars

(* The results page with the viewer on display: the result set is loaded,
   its blocks (with their boxes) have been decoded, the viewer has just
   mounted and the transcript panel holds its one text node.  A click hands
   its block to the page's handleBlockClick; the highlight timers are
   followed in HighlightSpec. *)
ViewerOcr ==
    <<Page(1, <<"a", "b">>, Conf(90), RawOneBlock), Page(2, <<"c", "d">>, Conf(90), RawAbsent)>>

PanelInit ==
    /\ pre = <<TextNode(Transcript(results[1].ocr_results))>>
    /\ timers = <<>>
    /\ spans = 0
    /\ lastClick = "none"

ViewerSpecInit ==
    /\ results = <<Response("jobA", ViewerOcr)>>
    /\ textBlocks \in ViewerBlockLists
    /\ Quiesced
    /\ fileType \in FileTypes
    /\ ViewerInit
    /\ PanelInit
    /\ ReviewIdle
    /\ MenuIdle
    /\ UploadIdle

ViewerNext ==
    \/ onDocumentLoadSuccess
    \/ HostRender
    \/ PreviousPage
    \/ NextPage
    \/ \E hostFirst \in BOOLEAN : ZoomOut(hostFirst)
    \/ \E hostFirst \in BOOLEAN : ZoomIn(hostFirst)
    \/ \E pt \in PointerOffsets : handleCanvasHover(pt)
    \/ onMouseLeave
    \/ \E pt \in PointerOffsets : handleCanvasClick(pt)

ViewerSpec == ViewerSpecInit /\ [][ViewerNext]_vars

(* The transcript panel under block clicks: the viewer shows page 1 of a
   PDF at scale 1.0 with its overlay drawn, the operator clicks on the
   overlay, and every highlight timer fires in the end *)
HighlightOcrSets ==
    { [i \in 1..Len(ts) |-> Page(i, ts[i], Conf(90), RawOneBlock)] :
        ts \in UNION { [1..k -> Texts] : k \in 0..MaxPages } }

HighlightInit ==
    /\ results \in { <<Response("jobA", ocr)>> : ocr \in HighlightOcrSets }
    /\ textBlocks = <<BlockAB, BlockCD, BlockZ>>
    /\ Quiesced
    /\ fileType = "application/pdf"
    /\ numPages = DocPages
    /\ pageNumber = 1
    /\ scale = 10
    /\ hoveredBlock = <<>>
    /\ surface = <<SurfaceOf(1, 10)>>
    /\ canvas = DrawEffect(textBlocks, <<>>, DefaultCanvas, surface, fileType, <<>>).canvas
    /\ drawn = DrawEffect(textBlocks, <<>>, DefaultCanvas, surface, fileType, <<>>).drawn
    /\ clicked = <<>>
    /\ PanelInit
    /\ ReviewIdle
    /\ MenuIdle
    /\ UploadIdle

HighlightNext ==
    \/ \E pt \in PointerOffsets : handleCanvasClick(pt)
    \/ TimerFires

HighlightSpec == HighlightInit /\ [][HighlightNext]_vars /\ WF_vars(TimerFires)

(* The results page from its mount to its unmount, with the download menu
   in use: the poller, route changes, the menu button and mousedown events *)
TeardownNext ==
    \/ Next
    \/ ToggleDownloadMenu
    \/ \E inside \in BOOLEAN : handleClickOutside(inside)

TeardownSpec == Init /\ [][TeardownNext]_vars

(* The upload page from its mount; the other pages are not on display *)
UploadInit ==
    /\ results = <<>>
    /\ textBlocks = <<>>
    /\ Quiesced
    /\ ComponentsIdle

UploadNext ==
    \/ \E f \in Files : onDrop(f)
    \/ removeFile
    \/ \E c \in BOOLEAN : setConsent(c)
    \/ ProcessDocument
    \/ ProgressTick
    \/ UploadResolves
    \/ \E msg \in UploadErrors : UploadRejects(msg)
    \/ Navigate

UploadSpec == UploadInit /\ [][UploadNext]_vars

(* The review page from its mount: the queue fetch of the mount effect
   (lines 1005-1007) is outstanding; the results page is not on display *)
ReviewInit ==
    /\ results = <<>>
    /\ textBlocks = <<>>
    /\ Quiesced
    /\ ViewerIdle
    /\ MenuIdle
    /\ UploadIdle
    /\ jobs = <<>>
    /\ selectedJob = <<>>
    /\ ocrResults = <<>>
    /\ currentText = <<>>
    /\ rvPageNumber = 1
    /\ rvNumPages = <<>>
    /\ rvLoading = TRUE
    /\ rvError = NoError
    /\ loadingResults = FALSE
    /\ queueFetch = TRUE
    /\ resultFetches = [j \in ReviewJobs |-> 0]
    /\ reviewRequests = {}

ReviewNext ==
    \/ \E data \in ReviewQueues : LoadJobsResolves(data)
    \/ LoadJobsThrows
    \/ \E j \in ReviewJobs : JobResultsResolve(j)
    \/ \E j \in ReviewJobs : JobResultsThrow(j)
    \/ ReviewDocumentLoadSuccess
    \/ ReviewPreviousPage
    \/ ReviewNextPage
    \/ \E t \in EditTexts : EditText(t)
    \/ DismissError
    \/ \E action \in ReviewActions : handleReview(action)
    \/ \E r \in reviewRequests, outcome \in {"fulfilled", "rejected"} : ReviewSettles(r, outcome)

ReviewSpec == ReviewInit /\ [][ReviewNext]_vars

----------------------------------------------------------------------------
(* Events, for stating properties of single steps *)

Threw == "threw"

(* the step processes the outcome o of a getJobStatus request of run s: the
   status the backend answered with, or a rejection *)
StatusResolves(s, o) ==
    \/ o = Threw /\ StatusThrows(s)
    \/ /\ o # Threw
       /\ sessJob[s] # NoJob
       /\ o = serverStatus[sessJob[s]]
       /\ (StatusPending(s) \/ StatusReady(s) \/ StatusFailed(s))

(* the step processes a response (or rejection) of a request of run s *)
ResponseProcessed(s) ==
    \/ statusInFlight'[s] < statusInFlight[s]
    \/ resultsInFlight'[s] < resultsInFlight[s]

(* the step issues a getJobStatus request for run s *)
StatusIssued(s) == statusInFlight'[s] > statusInFlight[s]

ShowsResults == View = "results"
ShowsError == ~loading /\ error # NoError

----------------------------------------------------------------------------
(* Properties *)

(* C1: once a run has processed a status of completed, ocr_complete or failed,
   or a thrown status fetch, it issues no further getJobStatus request, the
   time in which its results fetch is outstanding included. *)
C1_PollTermination ==
    [][\A s \in Sessions : terminalSeen[s] => ~StatusIssued(s)]_vars

(* C2: at every moment at most one getJobStatus request of a polling session
   is outstanding. *)
C2_SequentialStatusFetches ==
    \A s \in Sessions : statusInFlight[s] <= 1

(* C3: a polling session never issues two getJobResults requests. *)
C3_OneResultsFetch ==
    \A s \in Sessions : resultsRequested[s] <= 1

(* C4: a response processed for a run that was cancelled (route change or
   unmount) changes none of results, error, loading. *)
C4_LateResponseDiscarded ==
    [][\A s \in Sessions :
          Cancelled(s) /\ ResponseProcessed(s) => UNCHANGED <<results, error, loading>>]_vars

(* C5: the end states are absorbing. Stated for the first polling session of
   a mounted page (no route change has happened): once results are shown no
   error is ever set; once an error is shown the message never changes and
   results are never set. *)
C5_EndStatesAbsorbing ==
    [][(cur = 1 /\ cur' = 1 /\ mounted') =>
          /\ ShowsResults => error' = NoError
          /\ ShowsError => error' = error /\ results' = results]_vars

(* C6: on a mounted page a status of failed sets the Failed message, a thrown
   status fetch sets the TrackingLost message, both set loading to false and
   clear the run's interval in that step; a status of queued or processing
   changes none of results, error, loading and leaves the interval as it is;
   a run whose interval is cleared issues no status request again. *)
C6_FailFastMapping ==
    [][\A s \in Sessions :
          /\ mounted /\ StatusResolves(s, "failed") =>
                /\ error' = FailedMsg /\ loading' = FALSE /\ View' = "error"
                /\ ~pollInterval'[s] /\ ~StatusIssued(s)
          /\ mounted /\ StatusResolves(s, Threw) =>
                /\ error' = TrackingLostMsg /\ loading' = FALSE /\ View' = "error"
                /\ ~pollInterval'[s] /\ ~StatusIssued(s)
          /\ StatusResolves(s, "queued") \/ StatusResolves(s, "processing") =>
                UNCHANGED <<results, error, loading, pollInterval>>
          /\ sessJob[s] # NoJob /\ ~pollInterval[s] => ~StatusIssued(s)]_vars

(* a failed status has been processed on a mounted page whose backend job failed:
   the Failed message is shown, the interval is cleared, nothing is outstanding *)
C6_Witness ==
    /\ mounted /\ error = FailedMsg /\ ~loading /\ results = <<>>
    /\ serverStatus[jobId] = "failed"
    /\ terminalSeen[cur] /\ ~pollInterval[cur] /\ Outstanding = 0

(* C7: under the fairness of LiveSpec the poller eventually leaves the loading
   state and is in ResultsReady, Failed or TrackingLost. *)
C7_TrackingTerminates ==
    <>(~loading /\ (results # <<>> \/ error \in {FailedMsg, TrackingLostMsg}))

(* the job completed at the backend, the results arrived and polling stopped *)
C7_Witness ==
    /\ ~loading /\ results # <<>> /\ error = NoError
    /\ serverStatus[jobId] = "completed"
    /\ ~pollInterval[cur] /\ Outstanding = 0

UndecodableRaw(raw) == raw = RawAbsent \/ JSONParse(raw).threw

(* C8: whenever the displayed result set's first page has a raw_data payload
   that is absent or not parseable, the block list handed to the overlay is
   empty. *)
C8_DecodeResilience ==
    (ShowsResults /\ Len(results[1].ocr_results) > 0
        /\ UndecodableRaw(results[1].ocr_results[1].raw_data))
    => textBlocks = <<>>

DefinedPages(ocr) == SelectSeq(ocr, LAMBDA r : r.confidence # NoConfidence)

(* C9: the displayed and the exported mean confidence are the sum of the
   defined confidences divided by the number of pages that have one. *)
C9_MeanOverDefinedPages ==
    ShowsResults =>
        LET ocr == results[1].ocr_results
            def == DefinedPages(ocr)
        IN  Len(def) > 0 =>
              /\ RatEq(avgConfidence(ocr), Rat(ReduceConfidence(def), Len(def)))
              /\ (exported # <<>> /\ exported[1].kind = "json" =>
                    RatEq(exported[1].average_confidence,
                          Rat(ReduceConfidence(def), 100 * Len(def))))

RECURSIVE InsertByPage(_, _)
InsertByPage(r, sorted) ==
    IF Len(sorted) = 0 THEN <<r>>
    ELSE IF r.page_number <= sorted[1].page_number THEN <<r>> \o sorted
    ELSE <<sorted[1]>> \o InsertByPage(r, Tail(sorted))

RECURSIVE SortByPage(_)
SortByPage(ocr) ==
    IF Len(ocr) = 0 THEN <<>> ELSE InsertByPage(ocr[1], SortByPage(Tail(ocr)))

(* C10: the transcript is the pages' full_text joined by a paragraph break in
   ascending page_number order, whatever the order of the ocr_results array. *)
C10_TranscriptInPageOrder ==
    ShowsResults =>
        fullText(results[1].ocr_results)
            = Join(MapFullText(SortByPage(results[1].ocr_results)), ParagraphBreak)

RECURSIVE PagesWithBreaks(_, _)
(* The first n page texts of a result set, a paragraph break between
   neighbours *)
PagesWithBreaks(ocr, n) ==
    IF n = 0 THEN <<>>
    ELSE IF n = 1 THEN ocr[1].full_text
    ELSE PagesWithBreaks(ocr, n - 1) \o <<"\n", "\n">> \o ocr[n].full_text

(* A step that hands a plain-text file to the browser *)
TextExported ==
    /\ exported' # exported
    /\ exported' # <<>>
    /\ exported'[1].kind = "txt"

(* C11: the plain-text export of an n-page result set is the pages' full_text
   joined by "\n\n"; it is computed from the results in memory, no request is
   issued; and it is the string the render computes for the transcript panel
   (which the panel shows whenever that string is not empty). *)
C11_ExportIsTranscript ==
    [][TextExported =>
        /\ results # <<>>
        /\ LET ocr == results[1].ocr_results
               text == exported'[1].text
           IN  /\ text = PagesWithBreaks(ocr, Len(ocr))
               /\ text = fullText(ocr)
               /\ (fullText(ocr) # <<>> => text = Transcript(ocr))
        /\ UNCHANGED <<results, statusInFlight, resultsInFlight, resultsRequested>>
      ]_vars

C11_Witness ==
    /\ exported # <<>>
    /\ exported[1].kind = "txt"
    /\ Len(results[1].ocr_results) = 2
    /\ exported[1].text = <<"c", "d", "\n", "\n", "a", "b">>

(* A step in which the overlay is sized or drawn on *)
Redrawn == canvas' # canvas \/ drawn' # drawn

(* C12: in every draw cycle the overlay is given the surface's pixel size
   W x H and the block with bbox (x, y, width, height) is drawn at
   (x*W/1000, y*H/1000) with size (width*W/1000, height*H/1000); bbox
   (500, 500, 100, 50) on an 800 x 600 surface is drawn at (400, 300) with
   size (80, 30). *)
C12_CoordinateMapping ==
    [][Redrawn =>
        /\ surface' # <<>>
        /\ canvas'.width = surface'[1].width
        /\ canvas'.height = surface'[1].height
        /\ Len(drawn') = Len(textBlocks)
        /\ \A i \in 1..Len(textBlocks) :
              LET W == surface'[1].width
                  H == surface'[1].height
                  b == textBlocks[i].bbox
                  r == drawn'[i].rect
              IN  /\ RatEq(r.x, Rat(b.x * W, 1000))
                  /\ RatEq(r.y, Rat(b.y * H, 1000))
                  /\ RatEq(r.width, Rat(b.width * W, 1000))
                  /\ RatEq(r.height, Rat(b.height * H, 1000))
                  /\ (W = 800 /\ H = 600 /\ b = Bbox(500, 500, 100, 50)) =>
                        /\ RatEq(r.x, Rat(400, 1)) /\ RatEq(r.y, Rat(300, 1))
                        /\ RatEq(r.width, Rat(80, 1)) /\ RatEq(r.height, Rat(30, 1))
      ]_vars

C12_Witness ==
    /\ canvas.width = 800 /\ canvas.height = 600
    /\ drawn # <<>>
    /\ \E i \in 1..Len(textBlocks) :
          /\ textBlocks[i].bbox = Bbox(500, 500, 100, 50)
          /\ RatEq(drawn[i].rect.x, Rat(400, 1))
          /\ RatEq(drawn[i].rect.height, Rat(30, 1))

(* The point pt, taken to canvas pixels, lies in the pixel rectangle of
   block b, bounds included: all four comparisons cleared of fractions *)
InPixelRect(b, pt, cv) ==
    /\ b.x * cv.width * cv.styleWidth <= pt.x * cv.width * 1000
    /\ pt.x * cv.width * 1000 <= (b.x + b.width) * cv.width * cv.styleWidth
    /\ b.y * cv.height * cv.styleHeight <= pt.y * cv.height * 1000
    /\ pt.y * cv.height * 1000 <= (b.y + b.height) * cv.height * cv.styleHeight

(* The 0-based index of the first block whose rectangle contains pt, or -1 *)
FirstHit(pt) ==
    IF \E i \in 1..Len(textBlocks) : InPixelRect(textBlocks[i].bbox, pt, canvas)
    THEN (CHOOSE i \in 1..Len(textBlocks) :
            /\ InPixelRect(textBlocks[i].bbox, pt, canvas)
            /\ \A k \in 1..(i - 1) : ~InPixelRect(textBlocks[k].bbox, pt, canvas)) - 1
    ELSE -1

(* C13: for every pointer position, hover and click resolve to the
   lowest-indexed block whose pixel rectangle contains the point, bounds
   included; when no block contains it the hovered index becomes null and a
   click calls nothing and changes nothing. *)
C13_FirstBlockWins ==
    [][\A pt \in PointerOffsets :
          /\ handleCanvasHover(pt) =>
                hoveredBlock' = IF FirstHit(pt) >= 0 THEN <<FirstHit(pt)>> ELSE <<>>
          /\ handleCanvasClick(pt) =>
                IF FirstHit(pt) >= 0
                THEN clicked' = <<textBlocks[FirstHit(pt) + 1]>>
                ELSE UNCHANGED vars
      ]_vars

C13_Witness ==
    /\ hoveredBlock = <<0>>
    /\ clicked = <<textBlocks[1]>>
    /\ \E pt \in PointerOffsets :
          /\ OverCanvas(pt, canvas)
          /\ InPixelRect(textBlocks[1].bbox, pt, canvas)
          /\ InPixelRect(textBlocks[2].bbox, pt, canvas)

(* C14: once the host has finished rendering the current page and zoom, an
   overlay that has been drawn has the pixel size of that surface, and with
   it the scale factors used for drawing and hit-testing. *)
C14_NoStaleOverlay ==
    (HostReady /\ drawn # <<>>) =>
        /\ canvas.width = surface[1].width
        /\ canvas.height = surface[1].height
        /\ scaleX(canvas) = Rat(surface[1].width, 1000)
        /\ scaleY(canvas) = Rat(surface[1].height, 1000)

(* The transcript on display, and the length of the panel's first k nodes *)
Displayed == Transcript(results[1].ocr_results)
OffsetOfNode(nodes, k) == Len(textContent(SubSeq(nodes, 1, k - 1)))

(* The step wraps exactly the characters from..to of the transcript in a
   new highlight span *)
Highlights(from, to) ==
    /\ spans' = spans + 1
    /\ \E k \in 1..Len(pre') :
          /\ pre'[k].tag = "span"
          /\ pre'[k].id = spans'
          /\ OffsetOfNode(pre', k) = from
          /\ pre'[k].data = SubSeq(Displayed, from + 1, to)

(* C15: for every click on a block, whatever clicks came before it, the
   highlighted range is exactly the first occurrence of the block's text in
   the transcript; a click on a block whose text does not occur changes
   nothing and raises no error. *)
C15_HighlightFirstOccurrence ==
    [][\A pt \in PointerOffsets :
          (handleCanvasClick(pt) /\ FirstHit(pt) >= 0) =>
              LET text == textBlocks[FirstHit(pt) + 1].text
                  at == indexOf(Displayed, text)
              IN  IF at = -1
                  THEN UNCHANGED <<pre, timers, spans>> /\ lastClick' # "IndexSizeError"
                  ELSE Highlights(at, at + Len(text)) /\ lastClick' = "highlighted"
      ]_vars

HasSpan(id) == \E k \in 1..Len(pre) : pre[k].tag = "span" /\ pre[k].id = id

(* C16: every highlight a block click applies is removed by its timer in
   the end, and the panel's text content is at all times, so also after the
   removal and while highlights overlap, the transcript it held before the
   click.  (A block's text can be wrapped once, so the span ids are
   bounded by the number of blocks.) *)
C16_HighlightRoundTrip ==
    /\ [](textContent(pre) = Displayed /\ spans <= Len(textBlocks))
    /\ \A id \in 1..Len(<<BlockAB, BlockCD, BlockZ>>) : [](HasSpan(id) => <>~HasSpan(id))

C16_Witness ==
    /\ spans = 2
    /\ Len(timers) = 1
    /\ HasSpan(2) /\ ~HasSpan(1)
    /\ Len(pre) = 5
    /\ textContent(pre) = Displayed

(* C17: when the queue fetch succeeds with a non-empty list, the job at
   index 0 is the selected job; when it succeeds with the empty list, no job
   is selected and the page shows 'All Caught Up!'. *)
C17_QueueInitialisation ==
    [][\A data \in ReviewQueues :
          LoadJobsResolves(data) =>
              /\ jobs' = data
              /\ IF Len(data) > 0
                 THEN selectedJob' = <<data[1]>> /\ ReviewView' = "review"
                 ELSE selectedJob' = <<>> /\ ReviewView' = "caughtUp"
      ]_vars

C17_Witness ==
    /\ ~queueFetch /\ ~rvLoading
    /\ jobs = <<"jobB", "jobA">>
    /\ selectedJob = <<"jobB">>
    /\ reviewRequests = {}

(* C18: when the selected job changes to a job, the page cursor is reset to
   1 and a results fetch for that job is issued; whenever the page cursor or
   the loaded page results change, the buffer becomes the stored full_text
   of the page at the cursor, or the empty string if there is no such page. *)
C18_BufferReseeding ==
    [][/\ (selectedJob' # selectedJob /\ selectedJob' # <<>>) =>
              /\ rvPageNumber' = 1
              /\ resultFetches'[selectedJob'[1]] = resultFetches[selectedJob'[1]] + 1
       /\ (rvPageNumber' # rvPageNumber \/ ocrResults' # ocrResults) =>
              currentText' = PageText(ocrResults', rvPageNumber')
      ]_vars

(* The queue q without the entries equal to id, the others in their order *)
QueueMinus(q, id) ==
    LET keep == {i \in 1..Len(q) : q[i] # id}
    IN  [k \in 1..Cardinality(keep) |->
            q[CHOOSE i \in keep : Cardinality({m \in keep : m < i}) = k - 1]]

(* C19: when a submit succeeds, the queue becomes the queue of the render
   that submitted without the entries of the submitted job, the others kept
   in order; the selection is the new index 0, a job other than the
   submitted one, or none if nothing is left; the page cursor is 1.  If the
   submitted job is the selected job when its submit succeeds, that queue is
   the queue the page held just before. *)
C19_QueueAdvance ==
    [][\A r \in reviewRequests :
          ReviewSettles(r, "fulfilled") =>
              /\ jobs' = QueueMinus(r.jobs, r.job)
              /\ selectedJob = <<r.job>> => jobs' = QueueMinus(jobs, r.job)
              /\ selectedJob' = IF Len(jobs') > 0 THEN <<jobs'[1]>> ELSE <<>>
              /\ selectedJob' # <<r.job>>
              /\ rvPageNumber' = 1
      ]_vars

C19_Witness ==
    /\ jobs = <<"jobB">>
    /\ selectedJob = <<"jobB">>
    /\ rvPageNumber = 1
    /\ resultFetches["jobB"] = 1
    /\ reviewRequests = {}

(* C20: when the PATCH of a review fails, the queue, the selected job, the
   page cursor and the buffer are unchanged, the error message is set and
   the failed request is gone without another one being sent; requests are
   added by the Approve and Reject buttons only. *)
C20_SubmitFailureKeepsState ==
    [][/\ \A r \in reviewRequests :
              ReviewSettles(r, "rejected") =>
                  /\ UNCHANGED <<jobs, selectedJob, rvPageNumber, currentText>>
                  /\ rvError' = SubmitFailedMsg
                  /\ reviewRequests' = reviewRequests \ {r}
                  /\ UNCHANGED <<queueFetch, resultFetches>>
       /\ \/ reviewRequests' \subseteq reviewRequests
          \/ \E action \in ReviewActions : handleReview(action)
      ]_vars

C20_Witness ==
    /\ rvError = SubmitFailedMsg
    /\ jobs = <<"jobA", "jobB">>
    /\ selectedJob = <<"jobA">>
    /\ rvPageNumber = 2
    /\ currentText = <<"x">>
    /\ reviewRequests = {}

(* C21: a decision for a job is never submitted while the getJobResults
   request for that job is outstanding. *)
C21_NoSubmitDuringResultsFetch ==
    [][\A action \in ReviewActions :
          handleReview(action) => resultFetches[selectedJob[1]] = 0
      ]_vars

(* The stored page texts of job j *)
StoredTexts(j) == { ReviewResults(j)[i].full_text : i \in 1..Len(ReviewResults(j)) }

(* C24: the text sent with a decision for a job is the stored text of one
   of that job's pages, an operator edit, or empty: never text of a job that
   was selected before. *)
C24_TextProvenance ==
    [][\A action \in ReviewActions :
          handleReview(action) =>
              currentText \in StoredTexts(selectedJob[1]) \cup EditTexts \cup {<<>>}
      ]_vars

(* C25: once the results of the selected job are held, the response of a
   results fetch that was sent for a job selected earlier does not replace
   them: with all fetches resolved the page holds the selected job's pages. *)
C25_LateResultsDiscarded ==
    [][\A j \in ReviewJobs :
          ( /\ JobResultsResolve(j)
            /\ selectedJob # <<>> /\ j # selectedJob[1]
            /\ ocrResults # <<>> /\ ocrResults = ReviewResults(selectedJob[1])
            /\ \A k \in ReviewJobs : resultFetches'[k] = 0 )
          => ocrResults' = ReviewResults(selectedJob[1])
      ]_vars

(* C26: at most one decision request per job is outstanding at any time: a
   second press of Approve or Reject while the first request is out sends
   nothing. *)
C26_DecisionSentOnce ==
    \A r1, r2 \in reviewRequests : r1.job = r2.job => r1 = r2

(* C27: the page shows 'All Caught Up!' only after the queue fetch has
   succeeded with an empty queue; when the queue fetch has failed, the error
   is what the operator sees. *)
C27_CaughtUpOnlyAfterSuccess ==
    ReviewView = "caughtUp" => rvError # LoadFailedMsg

(* C28: after the initial load the selected job is none exactly when the
   queue is empty and is the queue's index 0 otherwise; the queue never gets
   longer, and it gets shorter only when a submit succeeds. *)
C28_SelectionAndQueue ==
    [][~queueFetch =>
          /\ selectedJob' = (IF Len(jobs') = 0 THEN <<>> ELSE <<jobs'[1]>>)
          /\ Len(jobs') <= Len(jobs)
          /\ Len(jobs') < Len(jobs) =>
                \E r \in reviewRequests : ReviewSettles(r, "fulfilled")
      ]_vars

(* The host shows the document: an image is there from the first render, a
   PDF page once react-pdf has rendered its canvas *)
HostShows == isPDF(fileType) => surface # <<>>

(* C29: for a PDF and for a raster image alike, once the host shows the
   document a draw cycle with a non-empty block list leaves one rectangle
   per block on the overlay, and a block is hit by a hover or a click only
   inside its drawn rectangle. *)
C29_HitTestMatchesDrawing ==
    [][HostShows =>
          /\ \A h \in {<<>>} \cup {<<i - 1>> : i \in 1..Len(textBlocks)} :
                (SetHoveredBlock(h) /\ h # hoveredBlock /\ Len(textBlocks) > 0) =>
                    Len(drawn') = Len(textBlocks)
          /\ \A pt \in PointerOffsets :
                ((handleCanvasHover(pt) \/ handleCanvasClick(pt)) /\ FirstHit(pt) >= 0) =>
                    /\ Len(drawn) = Len(textBlocks)
                    /\ drawn[FirstHit(pt) + 1].rect
                          = Rect(textBlocks[FirstHit(pt) + 1].bbox, canvas)
      ]_vars

(* The registered interval timers of the results page *)
RegisteredIntervals == {s \in Sessions : pollInterval[s]}

(* C22: at every moment the results page has at most one polling interval
   timer and at most one document mousedown listener registered, and once
   it is unmounted it has neither. *)
C22_TeardownDiscipline ==
    /\ Cardinality(RegisteredIntervals) <= 1
    /\ listeners <= 1
    /\ mounted => listeners = 1
    /\ ~mounted => RegisteredIntervals = {} /\ listeners = 0

C22_Witness ==
    /\ ~mounted
    /\ cur > 1
    /\ showDownloadMenu
    /\ listeners = 0
    /\ RegisteredIntervals = {}

(* C23: handleUpload sends an upload request only with a file selected and
   the consent box checked, and the request says so; otherwise it sends
   nothing, isUploading stays false and uploadProgress is unchanged, and
   with a file but no consent the consent-required error is set.  Nothing
   else sends an upload request. *)
C23_ConsentGate ==
    [][/\ handleUpload =>
              IF file # <<>> /\ consent
              THEN /\ uploadRequests' = <<[file |-> file[1], consent |-> TRUE]>>
                   /\ uploads' = uploads + 1
                   /\ isUploading'
              ELSE /\ UNCHANGED <<uploadRequests, uploads, uploadProgress, progressIntervals>>
                   /\ ~isUploading'
                   /\ file # <<>> => upError' = ConsentRequiredMsg
       /\ (uploads' # uploads \/ (uploadRequests' # uploadRequests /\ uploadRequests' # <<>>)) =>
              /\ file # <<>> /\ consent
              /\ handleUpload
      ]_vars

C23_Witness ==
    /\ uploads = 1
    /\ file # <<>> /\ ~consent
    /\ upError = ConsentRequiredMsg
    /\ ~isUploading
    /\ uploadRequests = <<>>

(* C30: while an upload is outstanding the progress does not decrease and
   is at most 90; on success it becomes 100; on failure it becomes 0,
   isUploading becomes false and no progress timer is left, so that the
   progress stays as it is until the next upload is started. *)
C30_UploadProgress ==
    [][/\ (uploadRequests # <<>> /\ uploadRequests' # <<>>) =>
              uploadProgress <= uploadProgress' /\ uploadProgress' <= ProgressCap
       /\ UploadResolves => uploadProgress' = DoneProgress
       /\ (\E msg \in UploadErrors : UploadRejects(msg)) =>
              uploadProgress' = 0 /\ ~isUploading' /\ progressIntervals' = 0
       /\ (~isUploading /\ ~isUploading') => uploadProgress' = uploadProgress
      ]_vars

====
